---- MODULE Spec2Model ----
(***************************************************************************)
(* Model of the URL shortener backend: the sliding-window admission        *)
(* controller (utils/rateLimiter.js, class RateLimiterQueue) and the       *)
(* request handlers of routes/urlRoutes.js over the document store and     *)
(* the in-memory HashMap cache.                                            *)
(*                                                                         *)
(* SpecRL  : one RateLimiterQueue instance driven by isAllowed / cleanup   *)
(*           calls and a non-decreasing clock.                             *)
(* SpecCreate, SpecRedirect : concurrent request handlers (the bodies the  *)
(*           router runs once the middleware chain has passed the request  *)
(*           on), one step per database operation and one per continuation *)
(*           after its await. SpecCreate serves POST /api/shorten, POST    *)
(*           /api/bulk-shorten and DELETE; SpecRedirect serves POST        *)
(*           /api/shorten with expiry, GET /:shortCode and DELETE while    *)
(*           the clock advances.                                           *)
(* SpecHM  : one HashMap instance driven call by call, with keys that      *)
(*           share buckets.                                                *)
(* SpecAdmit : the write-class routes behind their middleware chains, the  *)
(*           rate-limited ones calling the controller before the handler.  *)
(* SpecRLAdmin : SpecRL with the administrative calls getRequestCount and  *)
(*           reset, observed until MaxHistory requests have been admitted. *)
(* SpecLimit : POST /api/shorten behind rateLimitMiddleware, one request   *)
(*           at a time, while the controller's clock runs through a window.*)
(* SpecValidate : the two rate-limited routes with valid and invalid       *)
(*           bodies, one request at a time.                                *)
(* SpecBulk : POST /api/bulk-shorten with arrays of objects and null       *)
(*           elements, beside POST /api/shorten.                           *)
(***************************************************************************)
EXTENDS Integers, Sequences, FiniteSets, TLC

VARIABLES
    now,            \* Date.now(), in milliseconds
    requestQueues,  \* RateLimiterQueue.requestQueues : identifier -> queue of timestamps
    last,           \* the last controller or cache call and what it returned
    admitted,       \* history: every timestamp admitted per identifier, in order
    streak,         \* history: isAllowed calls made on an identifier since its window was created
    store,          \* the urls collection, in natural (insertion) order
    urlCache,       \* the HashMap instance urlCache
    req,            \* the request each handler slot is serving, with its locals
    nextId,         \* the next _id the collection hands out
    started,        \* the number of requests received so far
    lastShort       \* history: the shortCode of the last successful POST /api/shorten per URL

rlVars == <<requestQueues, last, admitted, streak>>

webVars == <<store, urlCache, req, nextId, started, lastShort>>

vars == <<now, requestQueues, last, admitted, streak,
         store, urlCache, req, nextId, started, lastShort>>

----------------------------------------------------------------------------
(* Configuration of the controller and bounds of the model                 *)

\* windowMs given to the constructor (the default is 60000)
WindowMs == 2000

\* maxRequests given to the constructor (the default is 10)
MaxRequests == 2

\* milliseconds per second, the divisor of retryAfter
MsPerSec == 1000

\* the clock is observed up to this time
MaxTime == 2001

\* with the administrative calls (getRequestCount, reset) the controller is
\* observed until this many requests have been admitted in total
MaxHistory == 3

\* the identifiers (client addresses) that call the controller
Identifiers == {"ipA", "ipB"}

\* the instants at which the clock is observed: around every whole second and
\* around every multiple of the window width
TimePoints ==
    {t \in 0..MaxTime :
        \/ (t % MsPerSec) \in {0, 1, MsPerSec - 1}
        \/ (t % WindowMs) \in {0, 1, WindowMs - 1}}

NoCall == [op |-> "none"]

----------------------------------------------------------------------------
(* RateLimiterQueue                                                        *)

\* Math.ceil(a / b) for an integer a and b > 0
Ceil(a, b) == -((-a) \div b)

\* mutant of Trim: the boundary timestamp is dropped too (<= for <)
RECURSIVE TrimEager(_, _)
TrimEager(queue, t) ==
    IF Len(queue) > 0 /\ Head(queue) <= t - WindowMs
    THEN TrimEager(Tail(queue), t)
    ELSE queue

\* mutant of Trim: nothing is ever dequeued
TrimNever(queue, t) == queue

\* mutant of Trim: an if for the while, one shift at most
TrimOnce(queue, t) ==
    IF Len(queue) > 0 /\ Head(queue) < t - WindowMs
    THEN Tail(queue)
    ELSE queue

\* while (queue.length > 0 && queue[0] < now - windowMs) queue.shift()
RECURSIVE Trim(_, _)
Trim(queue, t) ==
    IF Len(queue) > 0 /\ Head(queue) < t - WindowMs
    THEN Trim(Tail(queue), t)
    ELSE queue

\* mutant of LimitExceeded: > for >=
LimitExceededOffByOne(queue) == Len(queue) > MaxRequests

\* queue.length >= this.maxRequests
LimitExceeded(queue) == Len(queue) >= MaxRequests

\* mutant of RetryAfter: the time since the oldest timestamp, windowMs left out
RetryAfterWithoutWindow(queue, t) == Ceil(Head(queue) - t, MsPerSec)

\* mutant of RetryAfter: Math.floor for Math.ceil
RetryAfterFloor(queue, t) == (Head(queue) + WindowMs - t) \div MsPerSec

\* Math.ceil((queue[0] + this.windowMs - now) / 1000)
RetryAfter(queue, t) == Ceil(Head(queue) + WindowMs - t, MsPerSec)

\* mutant of Remaining: the length read before the push
RemainingBeforePush(queue) == MaxRequests - (Len(queue) - 1)

\* this.maxRequests - queue.length, read after the push
Remaining(queue) == MaxRequests - Len(queue)

\* the queue of an identifier as isAllowed sees it: created empty when absent
QueueOf(map, id) == IF id \in DOMAIN map THEN map[id] ELSE <<>>

\* mutant of MapSet: the map is replaced by one that tracks id alone
MapSetDropsOthers(map, id, queue) == [x \in {id} |-> queue]

\* Map.set(id, queue)
MapSet(map, id, queue) ==
    [x \in DOMAIN map \cup {id} |-> IF x = id THEN queue ELSE map[x]]

\* the result object of isAllowed(identifier) at time t
IsAllowedResult(map, id, t) ==
    LET queue == Trim(QueueOf(map, id), t)
    IN  IF LimitExceeded(queue)
        THEN [allowed |-> FALSE, retryAfter |-> RetryAfter(queue, t), remaining |-> -1]
        ELSE [allowed |-> TRUE, retryAfter |-> -1,
              remaining |-> Remaining(Append(queue, t))]

\* mutant of IsAllowedMap: the timestamp is pushed before the limit is tested
IsAllowedMapPushesAlways(map, id, t) ==
    MapSet(map, id, Append(Trim(QueueOf(map, id), t), t))

\* mutant of IsAllowedMap: the new timestamp is put at the front (unshift)
IsAllowedMapUnshift(map, id, t) ==
    LET queue == Trim(QueueOf(map, id), t)
    IN  IF LimitExceeded(queue)
        THEN MapSet(map, id, queue)
        ELSE MapSet(map, id, <<t>> \o queue)

\* the tracking map after isAllowed(identifier) at time t
IsAllowedMap(map, id, t) ==
    LET queue == Trim(QueueOf(map, id), t)
    IN  IF LimitExceeded(queue)
        THEN MapSet(map, id, queue)
        ELSE MapSet(map, id, Append(queue, t))

\* mutant of CleanupMap: every window is dropped, expired or not
CleanupClearsAll(map, t) == [id \in {} |-> << >>]

\* mutant of CleanupMap: the emptied queues are not deleted
CleanupKeepsEmpty(map, t) == [id \in DOMAIN map |-> Trim(map[id], t)]

\* the tracking map after cleanup() at time t
CleanupMap(map, t) ==
    LET kept == {id \in DOMAIN map : Len(Trim(map[id], t)) # 0}
    IN  [id \in kept |-> Trim(map[id], t)]

\* mutant of ResetMap: every identifier's window is dropped
ResetMapClearsAll(map, id) == [x \in {} |-> << >>]

\* Map.delete(id)
ResetMap(map, id) == [x \in DOMAIN map \ {id} |-> map[x]]

\* getRequestCount(identifier): queue ? queue.length : 0
RequestCount(map, id) == IF id \in DOMAIN map THEN Len(map[id]) ELSE 0

\* history helper: the timestamps of a sequence that lie in [t - windowMs, t]
InWindow(seq, t) == SelectSeq(seq, LAMBDA x : x >= t - WindowMs /\ x <= t)

----------------------------------------------------------------------------
(* The urls collection, the HashMap cache and the handlers' inputs         *)

\* number of buckets given to the HashMap constructor (urlCache uses 10000)
HashSize == 3

\* the handlers receive at most this many requests
MaxStarted == 3

\* the handlers observe the clock up to this time
MaxClock == 2

\* clicks are counted up to this many per record
MaxClicks == 2

\* a bulk request carries at most this many items: the route allows 100 and
\* refuses a longer array, the model scales the limit down
MaxBulk == 2

\* const maxAttempts = 5
MaxAttempts == 5

\* expiresAt: null
NoExpiry == -1

\* the short codes nanoid() can draw, as character codes: "ab" and "ba"
Codes == {<<97, 98>>, <<98, 97>>}

\* no short code
NoCode == << >>

\* the URLs clients send, with the protocol new URL(u).protocol yields
Protocol == [u \in {"http://a", "https://b", "ftp://c"} |->
                IF u = "http://a" THEN "http:"
                ELSE IF u = "https://b" THEN "https:" ELSE "ftp:"]

UrlInputs == DOMAIN Protocol

\* isValidUrl(urlString)
IsValidUrl(u) == Protocol[u] = "http:" \/ Protocol[u] = "https:"

Urls == {u \in UrlInputs : IsValidUrl(u)}

\* a request body without originalUrl
MissingUrl == ""

\* validateShortenRequest calls next(): originalUrl is there and well-formed
PassesValidation(u) == u # MissingUrl /\ IsValidUrl(u)

\* a null element of the urls array: const { originalUrl } = item throws a
\* TypeError, and so does item.originalUrl in the catch block of the loop
NullItem == [url |-> "null", exp |-> NoExpiry]

\* if (!Array.isArray(urls) || urls.length === 0), if (urls.length > 100)
BadBulkArray(items) == Len(items) = 0 \/ Len(items) > MaxBulk

\* the expiresAt values clients send
Expiries == {NoExpiry} \cup (1..(MaxClock - 1))

\* the handler slots: requests in flight at the same time
Reqs == {"r1", "r2"}

\* what HashMap.get returns for an absent key
Null == "null"

\* HashMap._hash(key)
RECURSIVE HashFrom(_, _, _)
HashFrom(key, i, hash) ==
    IF i > Len(key) THEN hash
    ELSE HashFrom(key, i + 1, (hash + key[i] * i) % HashSize)

Hash(key) == HashFrom(key, 1, 0)

\* new HashMap(size)
EmptyHashMap == [buckets |-> [b \in 0..(HashSize - 1) |-> << >>], count |-> 0]

\* mutant of IndexOfKey: the scan never matches
IndexOfKeyNone(bucket, key) == 0

\* the position of the first entry of a bucket with this key, 0 when none
IndexOfKey(bucket, key) ==
    IF \E i \in 1..Len(bucket) : bucket[i][1] = key
    THEN CHOOSE i \in 1..Len(bucket) :
            /\ bucket[i][1] = key
            /\ \A j \in 1..(i - 1) : bucket[j][1] # key
    ELSE 0

\* mutant of RemoveAt: splice(i) without a delete count drops the rest too
RemoveFrom(seq, i) == SubSeq(seq, 1, i - 1)

\* Array.splice(i, 1)
RemoveAt(seq, i) == SubSeq(seq, 1, i - 1) \o SubSeq(seq, i + 1, Len(seq))

\* mutant of HmSet: the bucket is not scanned for the key
HmSetAlwaysPush(hm, key, value) ==
    [buckets |-> [hm.buckets EXCEPT ![Hash(key)] = Append(@, <<key, value>>)],
     count |-> hm.count + 1]

\* HashMap.set(key, value)
HmSet(hm, key, value) ==
    LET index == Hash(key)
        bucket == hm.buckets[index]
        i == IndexOfKey(bucket, key)
    IN  IF i # 0
        THEN [hm EXCEPT !.buckets[index][i] = <<key, value>>]
        ELSE [buckets |-> [hm.buckets EXCEPT ![index] = Append(bucket, <<key, value>>)],
              count |-> hm.count + 1]

\* mutant of HmGet: the first entry of the key's bucket is taken for the key's
HmGetFirstOfBucket(hm, key) ==
    LET bucket == hm.buckets[Hash(key)]
    IN  IF Len(bucket) > 0 THEN bucket[1][2] ELSE Null

\* HashMap.get(key)
HmGet(hm, key) ==
    LET bucket == hm.buckets[Hash(key)]
        i == IndexOfKey(bucket, key)
    IN  IF i # 0 THEN bucket[i][2] ELSE Null

\* mutant of HmDelete: the entry is removed but the count is kept
HmDeleteKeepsCount(hm, key) ==
    LET index == Hash(key)
        bucket == hm.buckets[index]
        i == IndexOfKey(bucket, key)
    IN  IF i # 0
        THEN [buckets |-> [hm.buckets EXCEPT ![index] = RemoveAt(bucket, i)],
              count |-> hm.count]
        ELSE hm

\* HashMap.delete(key): the map afterwards
HmDelete(hm, key) ==
    LET index == Hash(key)
        bucket == hm.buckets[index]
        i == IndexOfKey(bucket, key)
    IN  IF i # 0
        THEN [buckets |-> [hm.buckets EXCEPT ![index] = RemoveAt(bucket, i)],
              count |-> hm.count - 1]
        ELSE hm

\* mutant of HmDeleteReturns: true for every call
HmDeleteReturnsTrue(hm, key) == TRUE

\* HashMap.delete(key): the value returned
HmDeleteReturns(hm, key) == IndexOfKey(hm.buckets[Hash(key)], key) # 0

\* HashMap.has(key)
HmHas(hm, key) == HmGet(hm, key) # Null

\* HashMap.keys(): the keys of bucket b and of the buckets after it
RECURSIVE HmKeysFrom(_, _)
HmKeysFrom(hm, b) ==
    IF b > HashSize - 1 THEN << >>
    ELSE [i \in 1..Len(hm.buckets[b]) |-> hm.buckets[b][i][1]] \o HmKeysFrom(hm, b + 1)

HmKeys(hm) == HmKeysFrom(hm, 0)

\* HashMap.getCount()
HmGetCount(hm) == hm.count

\* HashMap.clear()
HmClear(hm) == EmptyHashMap

\* the keys and values the cache is called with: "a", "b", "ab" and "ba" as
\* character codes, so that keys share buckets, and the URLs the routes store
CacheKeys == {<<97>>, <<98>>, <<97, 98>>, <<98, 97>>}

CacheValues == Urls

\* no cache call yet; live is the key-to-value map the calls made so far
\* describe, Null for a key with no live entry
NoCacheCall ==
    [op |-> "none", key |-> NoCode, value |-> Null, ret |-> Null,
     pre |-> EmptyHashMap, prevOp |-> "none", prevKey |-> NoCode, prevRet |-> Null,
     wasLive |-> FALSE, live |-> [k \in CacheKeys |-> Null]]

\* the record of a cache call: what it was, what it returned, the map before it
CacheCall(op, key, value, ret, live) ==
    [op |-> op, key |-> key, value |-> value, ret |-> ret,
     pre |-> urlCache, prevOp |-> last.op, prevKey |-> last.key, prevRet |-> last.ret,
     wasLive |-> IF key \in CacheKeys THEN last.live[key] # Null ELSE FALSE,
     live |-> live]

\* no document (findOne resolved to null)
NoDoc == [id |-> 0, originalUrl |-> "", shortCode |-> NoCode, clicks |-> 0,
          history |-> 0, expiresAt |-> NoExpiry]

\* new Url({originalUrl, shortCode, clicks: 0, expiresAt}), with the _id it gets
NewDoc(id, u, c, e) ==
    [id |-> id, originalUrl |-> u, shortCode |-> c, clicks |-> 0,
     history |-> 0, expiresAt |-> e]

\* findOne: the first matching document in natural order, or null
FindFirst(matches) == IF matches = << >> THEN NoDoc ELSE Head(matches)

\* mutant of FindByOriginalUrl: the lookup never finds the URL
FindByOriginalUrlNever(docs, u) == NoDoc

\* Url.findOne({ originalUrl })
FindByOriginalUrl(docs, u) == FindFirst(SelectSeq(docs, LAMBDA d : d.originalUrl = u))

\* Url.findOne({ shortCode })
FindByShortCode(docs, c) == FindFirst(SelectSeq(docs, LAMBDA d : d.shortCode = c))

\* the unique index on shortCode rejects the insert (error code 11000)
DuplicateKey(docs, doc) == \E i \in 1..Len(docs) : docs[i].shortCode = doc.shortCode

\* mutant of KeepProbing: one attempt more than the bound
KeepProbingOneMore(attempts) == attempts < MaxAttempts + 1

\* while (attempts < maxAttempts)
KeepProbing(attempts) == attempts < MaxAttempts

\* mutant of Exhausted: > for >=
ExhaustedOffByOne(attempts) == attempts > MaxAttempts

\* if (attempts >= maxAttempts)
Exhausted(attempts) == attempts >= MaxAttempts

\* url.expiresAt && new Date() > url.expiresAt
Expired(doc, t) == doc.expiresAt # NoExpiry /\ t > doc.expiresAt

\* if (expiresAt) { ... expDate <= new Date() ... }: the request is refused
BadExpiry(e, t) == e # NoExpiry /\ e <= t

\* mutant of RedirectDecision: a cached entry is served without reading the record
RedirectDecisionCacheFirst(cached, doc, t) ==
    IF cached # Null THEN 302
    ELSE IF doc = NoDoc THEN 404
    ELSE IF Expired(doc, t) THEN 410
    ELSE 302

\* GET /:shortCode: the status decided from the record read from the store
RedirectDecision(cached, doc, t) ==
    IF doc = NoDoc THEN 404
    ELSE IF Expired(doc, t) THEN 410
    ELSE 302

\* a handler slot that serves no request
Idle ==
    [pc |-> "idle", op |-> "none", url |-> "", exp |-> NoExpiry, code |-> NoCode,
     attempts |-> 0, doc |-> NoDoc, err |-> "none", items |-> << >>,
     successful |-> << >>, failed |-> << >>, status |-> 0,
     probes |-> 0, firstFree |-> 0, freeCode |-> NoCode, alloc |-> "none",
     prior |-> NoCode, solo |-> FALSE, created |-> FALSE,
     cached |-> Null, decidedAt |-> 0, passed |-> FALSE, storeFailed |-> FALSE,
     retryAfter |-> -1, rateRemaining |-> -1, total |-> 0]

WebInitVars ==
    /\ store = << >>
    /\ urlCache = EmptyHashMap
    /\ req = [p \in Reqs |-> Idle]
    /\ nextId = 1
    /\ started = 0
    /\ lastShort = [u \in Urls |-> NoCode]

RLInitVars ==
    /\ requestQueues = << >>
    /\ last = NoCall
    /\ admitted = [id \in Identifiers |-> << >>]
    /\ streak = [id \in Identifiers |-> [n |-> 0, first |-> 0]]

----------------------------------------------------------------------------
(* Actions of the controller                                               *)

InitRL ==
    /\ now = 0
    /\ RLInitVars
    /\ WebInitVars

\* Date.now() moves forward
Tick ==
    /\ \E t \in TimePoints : t > now /\ now' = t
    /\ UNCHANGED <<requestQueues, last, admitted, streak>>
    /\ UNCHANGED webVars

\* rateLimiter.isAllowed(id)
IsAllowed(id) ==
    LET res == IsAllowedResult(requestQueues, id, now)
        seenSeq == InWindow(admitted[id], now)
        before == QueueOf(requestQueues, id)
        n == IF id \in DOMAIN requestQueues THEN streak[id].n ELSE 0
    IN  /\ requestQueues' = IsAllowedMap(requestQueues, id, now)
        /\ last' = [op |-> "isAllowed", id |-> id, at |-> now,
                    allowed |-> res.allowed, remaining |-> res.remaining,
                    retryAfter |-> res.retryAfter,
                    seen |-> Len(seenSeq),
                    trimmed |-> Len(before) - Len(Trim(before, now)),
                    oldest |-> IF Len(seenSeq) > 0 THEN Head(seenSeq) ELSE -1]
        /\ admitted' = IF res.allowed
                       THEN [admitted EXCEPT ![id] = Append(@, now)]
                       ELSE admitted
        /\ streak' = [streak EXCEPT ![id] =
                        [n |-> IF n > MaxRequests THEN n ELSE n + 1,
                         first |-> IF n = 0 THEN now ELSE @.first]]
        /\ UNCHANGED now
        /\ UNCHANGED webVars

\* rateLimiter.cleanup(), run by the setInterval timer
Cleanup ==
    /\ requestQueues' = CleanupMap(requestQueues, now)
    /\ last' = [op |-> "cleanup", at |-> now, pre |-> requestQueues]
    /\ streak' = [id \in Identifiers |->
                    IF id \in DOMAIN requestQueues'
                    THEN streak[id] ELSE [n |-> 0, first |-> 0]]
    /\ UNCHANGED <<now, admitted>>
    /\ UNCHANGED webVars

NextRL ==
    \/ Tick
    \/ \E id \in Identifiers : IsAllowed(id)
    \/ Cleanup

SpecRL == InitRL /\ [][NextRL]_vars

----------------------------------------------------------------------------
(* Administrative calls of the controller                                  *)

\* mutant of GetRequestCount: the queue is created when absent, as in isAllowed
GetRequestCountCreates(id) ==
    /\ last' = [op |-> "getRequestCount", id |-> id,
                ret |-> RequestCount(requestQueues, id), pre |-> requestQueues]
    /\ requestQueues' = MapSet(requestQueues, id, QueueOf(requestQueues, id))
    /\ UNCHANGED <<now, admitted, streak>>
    /\ UNCHANGED webVars

\* rateLimiter.getRequestCount(id)
GetRequestCount(id) ==
    /\ last' = [op |-> "getRequestCount", id |-> id,
                ret |-> RequestCount(requestQueues, id), pre |-> requestQueues]
    /\ UNCHANGED <<now, requestQueues, admitted, streak>>
    /\ UNCHANGED webVars

\* rateLimiter.reset(id), while the identifier's history is short
Reset(id) ==
    /\ requestQueues' = ResetMap(requestQueues, id)
    /\ last' = [op |-> "reset", id |-> id, pre |-> requestQueues]
    /\ streak' = [streak EXCEPT ![id] = [n |-> 0, first |-> 0]]
    /\ UNCHANGED <<now, admitted>>
    /\ UNCHANGED webVars

\* the controller with its administrative calls
RECURSIVE SumLen(_, _)
SumLen(h, ids) ==
    IF ids = {} THEN 0
    ELSE LET i == CHOOSE x \in ids : TRUE
         IN  Len(h[i]) + SumLen(h, ids \ {i})

\* number of requests admitted so far, over all identifiers
HistoryLen(h) == SumLen(h, Identifiers)

NextRLAdmin ==
    \/ Tick
    \/ \E id \in Identifiers :
           IsAllowed(id) /\ HistoryLen(admitted') <= MaxHistory
    \/ Cleanup
    \/ \E id \in Identifiers : GetRequestCount(id)
    \/ \E id \in Identifiers : Reset(id)

SpecRLAdmin == InitRL /\ [][NextRLAdmin]_vars

----------------------------------------------------------------------------
(* Request handlers of routes/urlRoutes.js                                 *)

InitWeb ==
    /\ now = 0
    /\ RLInitVars
    /\ WebInitVars

\* a response is being sent: it leaves the slot before anything else runs
AnyDone == \E q \in Reqs : req[q].pc = "done"

\* the slot is at this point of its handler, and may take its next step
At(p, pc) == req[p].pc = pc /\ ~AnyDone

\* the slot's locals after the assignments of one step
Upd(p, r) == req' = [req EXCEPT ![p] = r]

\* new Date() moves forward while requests are served
TickWeb ==
    /\ ~AnyDone
    /\ now < MaxClock
    /\ now' = now + 1
    /\ UNCHANGED rlVars
    /\ UNCHANGED webVars

\* the response has been sent: the slot is free for the next request
Finish(p) ==
    /\ req[p].pc = "done"
    /\ Upd(p, Idle)
    /\ UNCHANGED <<now, store, urlCache, nextId, started, lastShort>>
    /\ UNCHANGED rlVars

\* POST /api/shorten, up to the first await: the expiry check, then
\* Url.findOne({ originalUrl }) is issued
StartShorten(p, u, e) ==
    /\ At(p, "idle")
    /\ started < MaxStarted
    /\ started' = started + 1
    /\ IF BadExpiry(e, now)
       THEN Upd(p, [Idle EXCEPT !.pc = "done", !.op = "shorten", !.url = u,
                                !.exp = e, !.status = 400])
       ELSE Upd(p, [Idle EXCEPT !.pc = "findUrl", !.op = "shorten", !.url = u,
                                !.exp = e, !.prior = lastShort[u]])
    /\ UNCHANGED <<now, store, urlCache, nextId, lastShort>>
    /\ UNCHANGED rlVars

\* the store answers Url.findOne({ originalUrl })
DbFindOriginalUrl(p) ==
    /\ At(p, "findUrl")
    /\ LET u == req[p].url
           mine == {i \in 1..Len(store) : store[i].originalUrl = u}
       IN  Upd(p, [req[p] EXCEPT
                !.pc = "foundUrl",
                !.doc = FindByOriginalUrl(store, u),
                !.solo = /\ Cardinality(mine) = 1
                         /\ \A i \in mine : store[i].shortCode = req[p].prior])
    /\ UNCHANGED <<now, store, urlCache, nextId, started, lastShort>>
    /\ UNCHANGED rlVars

\* mutant of ShortenFoundUrl: the existing record takes the request's expiresAt
ShortenFoundUrlUpdatesExpiry(p) ==
    /\ At(p, "foundUrl")
    /\ IF req[p].doc # NoDoc
       THEN /\ urlCache' = HmSet(urlCache, req[p].doc.shortCode, req[p].doc.originalUrl)
            /\ Upd(p, [req[p] EXCEPT !.pc = "done", !.status = 200,
                                     !.code = req[p].doc.shortCode])
            /\ lastShort' = [lastShort EXCEPT ![req[p].url] = req[p].doc.shortCode]
            /\ store' = [i \in 1..Len(store) |->
                            IF store[i].id = req[p].doc.id
                            THEN [store[i] EXCEPT !.expiresAt = req[p].exp]
                            ELSE store[i]]
       ELSE /\ \E c \in Codes :
                 Upd(p, [req[p] EXCEPT !.pc = "probe", !.code = c, !.attempts = 0])
            /\ UNCHANGED <<urlCache, lastShort, store>>
    /\ UNCHANGED <<now, nextId, started>>
    /\ UNCHANGED rlVars

\* POST /api/shorten after the lookup: an existing record is answered from,
\* otherwise the first code is drawn and probed
ShortenFoundUrl(p) ==
    /\ At(p, "foundUrl")
    /\ IF req[p].doc # NoDoc
       THEN /\ urlCache' = HmSet(urlCache, req[p].doc.shortCode, req[p].doc.originalUrl)
            /\ Upd(p, [req[p] EXCEPT !.pc = "done", !.status = 200,
                                     !.code = req[p].doc.shortCode])
            /\ lastShort' = [lastShort EXCEPT ![req[p].url] = req[p].doc.shortCode]
       ELSE /\ \E c \in Codes :
                 Upd(p, [req[p] EXCEPT !.pc = "probe", !.code = c, !.attempts = 0])
            /\ UNCHANGED <<urlCache, lastShort>>
    /\ UNCHANGED <<now, store, nextId, started>>
    /\ UNCHANGED rlVars

\* the store answers the probe Url.findOne({ shortCode })
DbProbe(p) ==
    /\ At(p, "probe")
    /\ LET existing == FindByShortCode(store, req[p].code)
           n == req[p].probes + 1
       IN  Upd(p, [req[p] EXCEPT
                !.pc = "probed",
                !.doc = existing,
                !.probes = n,
                !.firstFree = IF existing = NoDoc /\ @ = 0 THEN n ELSE @,
                !.freeCode = IF existing = NoDoc /\ req[p].firstFree = 0
                             THEN req[p].code ELSE @])
    /\ UNCHANGED <<now, store, urlCache, nextId, started, lastShort>>
    /\ UNCHANGED rlVars

\* the items of a bulk request that fail validation before any await, from
\* the front of the list: [items, failed] once they are skipped
RECURSIVE BulkSkip(_, _, _)
BulkSkip(items, failed, t) ==
    IF Len(items) = 0 \/ Head(items) = NullItem
    THEN [items |-> items, failed |-> failed]
    ELSE IF ~PassesValidation(Head(items).url) \/ BadExpiry(Head(items).exp, t)
    THEN BulkSkip(Tail(items), Append(failed, Head(items).url), t)
    ELSE [items |-> items, failed |-> failed]

\* the bulk loop moves on: the invalid items in front are failed, then either
\* a code is drawn for the next item or the response is sent
BulkNext(r, items, successful, failed, c, t) ==
    LET sk == BulkSkip(items, failed, t)
    IN  IF Len(sk.items) = 0
        THEN [r EXCEPT !.pc = "done", !.status = 201, !.items = << >>,
                       !.successful = successful, !.failed = sk.failed]
        ELSE IF Head(sk.items) = NullItem
        THEN [r EXCEPT !.pc = "done", !.status = 500, !.items = sk.items,
                       !.err = "typeerror",
                       !.successful = successful, !.failed = sk.failed]
        ELSE [r EXCEPT !.pc = "probe", !.items = sk.items,
                       !.url = Head(sk.items).url, !.exp = Head(sk.items).exp,
                       !.code = c, !.attempts = 0, !.doc = NoDoc, !.err = "none",
                       !.probes = 0, !.firstFree = 0, !.freeCode = NoCode,
                       !.alloc = "none", !.created = FALSE,
                       !.successful = successful, !.failed = sk.failed]

\* the do-while of the allocation after a probe resolved: break on a free
\* code, else count the attempt and draw again while attempts < maxAttempts;
\* after the loop the exhausted request fails, the other builds its document
AfterProbe(p) ==
    /\ At(p, "probed")
    /\ LET r == req[p]
           free == r.doc = NoDoc
           attempts == IF free THEN r.attempts ELSE r.attempts + 1
       IN  \E c \in Codes :
             IF ~free /\ KeepProbing(attempts)
             THEN Upd(p, [r EXCEPT !.pc = "probe", !.code = c, !.attempts = attempts,
                                   !.doc = NoDoc])
             ELSE IF Exhausted(attempts)
             THEN IF r.op = "shorten"
                  THEN Upd(p, [r EXCEPT !.pc = "done", !.status = 500,
                                        !.attempts = attempts, !.alloc = "exhausted"])
                  ELSE Upd(p, [r EXCEPT !.pc = "bulkNext", !.attempts = attempts,
                                        !.alloc = "exhausted",
                                        !.failed = Append(@, r.url)])
             ELSE Upd(p, [r EXCEPT !.pc = "insert", !.attempts = attempts,
                                   !.alloc = "ok"])
    /\ UNCHANGED <<now, store, urlCache, nextId, started, lastShort>>
    /\ UNCHANGED rlVars

\* the store performs url.save() of a new document
DbInsert(p) ==
    /\ At(p, "insert")
    /\ LET doc == NewDoc(nextId, req[p].url, req[p].code, req[p].exp)
       IN  IF DuplicateKey(store, doc)
           THEN /\ Upd(p, [req[p] EXCEPT !.pc = "inserted", !.err = "duplicate",
                                         !.storeFailed = TRUE])
                /\ UNCHANGED <<store, nextId>>
           ELSE /\ store' = Append(store, doc)
                /\ nextId' = nextId + 1
                /\ Upd(p, [req[p] EXCEPT !.pc = "inserted", !.doc = doc,
                                         !.created = TRUE])
    /\ UNCHANGED <<now, urlCache, started, lastShort>>
    /\ UNCHANGED rlVars

\* mutant of AfterInsert: the cache is written whether or not the save succeeded
AfterInsertCachesAlways(p) ==
    /\ At(p, "inserted")
    /\ LET r == req[p]
       IN  /\ urlCache' = HmSet(urlCache, r.code, r.url)
           /\ IF r.op = "shorten"
              THEN IF r.err # "none"
                   THEN /\ Upd(p, [r EXCEPT !.pc = "done", !.status = 400])
                        /\ UNCHANGED lastShort
                   ELSE /\ Upd(p, [r EXCEPT !.pc = "done", !.status = 201])
                        /\ lastShort' = [lastShort EXCEPT ![r.url] = r.code]
              ELSE IF r.err # "none"
                   THEN /\ Upd(p, [r EXCEPT !.pc = "bulkNext", !.failed = Append(@, r.url)])
                        /\ UNCHANGED lastShort
                   ELSE /\ Upd(p, [r EXCEPT !.pc = "bulkNext",
                                            !.successful = Append(@, <<r.url, r.code>>)])
                        /\ UNCHANGED lastShort
    /\ UNCHANGED <<now, store, nextId, started>>
    /\ UNCHANGED rlVars

\* after await url.save(): a rejected save is thrown (POST /api/shorten: to the
\* error handler, which answers 400 for code 11000; bulk: caught per item),
\* a stored document is put into the cache and reported
AfterInsert(p) ==
    /\ At(p, "inserted")
    /\ LET r == req[p]
       IN  IF r.op = "shorten"
           THEN IF r.err # "none"
                THEN /\ Upd(p, [r EXCEPT !.pc = "done", !.status = 400])
                     /\ UNCHANGED <<urlCache, lastShort>>
                ELSE /\ urlCache' = HmSet(urlCache, r.code, r.url)
                     /\ Upd(p, [r EXCEPT !.pc = "done", !.status = 201])
                     /\ lastShort' = [lastShort EXCEPT ![r.url] = r.code]
           ELSE IF r.err # "none"
                THEN /\ Upd(p, [r EXCEPT !.pc = "bulkNext", !.failed = Append(@, r.url)])
                     /\ UNCHANGED <<urlCache, lastShort>>
                ELSE /\ urlCache' = HmSet(urlCache, r.code, r.url)
                     /\ Upd(p, [r EXCEPT !.pc = "bulkNext",
                                         !.successful = Append(@, <<r.url, r.code>>)])
                     /\ UNCHANGED lastShort
    /\ UNCHANGED <<now, store, nextId, started>>
    /\ UNCHANGED rlVars

\* POST /api/bulk-shorten, up to the first await (one bulk request in flight
\* at a time)
StartBulk(p, items) ==
    /\ At(p, "idle")
    /\ started < MaxStarted
    /\ started' = started + 1
    /\ \A q \in Reqs : req[q].op # "bulk"
    /\ \E c \in Codes :
          Upd(p, BulkNext([Idle EXCEPT !.op = "bulk", !.total = Len(items)],
                          items, << >>, << >>, c, now))
    /\ UNCHANGED <<now, store, urlCache, nextId, lastShort>>
    /\ UNCHANGED rlVars

\* the for loop of the bulk request goes to its next item
BulkContinue(p) ==
    /\ At(p, "bulkNext")
    /\ \E c \in Codes :
          Upd(p, BulkNext(req[p], Tail(req[p].items), req[p].successful,
                          req[p].failed, c, now))
    /\ UNCHANGED <<now, store, urlCache, nextId, started, lastShort>>
    /\ UNCHANGED rlVars

\* mutant of StartGet: a cached code is redirected at once, without the read
\* of the record (the click write it would start in the background is left out)
StartGetCacheFirst(p, c) ==
    /\ At(p, "idle")
    /\ started < MaxStarted
    /\ started' = started + 1
    /\ \A i \in 1..Len(store) : store[i].history < MaxClicks
    /\ IF HmGet(urlCache, c) # Null
       THEN Upd(p, [Idle EXCEPT !.pc = "done", !.op = "get", !.code = c,
                                !.status = 302, !.cached = HmGet(urlCache, c)])
       ELSE Upd(p, [Idle EXCEPT !.pc = "getFind", !.op = "get", !.code = c])
    /\ UNCHANGED <<now, store, urlCache, nextId, lastShort>>
    /\ UNCHANGED rlVars

\* GET /:shortCode, up to the first await
StartGet(p, c) ==
    /\ At(p, "idle")
    /\ started < MaxStarted
    /\ started' = started + 1
    /\ \A i \in 1..Len(store) : store[i].history < MaxClicks
    /\ Upd(p, [Idle EXCEPT !.pc = "getFind", !.op = "get", !.code = c])
    /\ UNCHANGED <<now, store, urlCache, nextId, lastShort>>
    /\ UNCHANGED rlVars

\* the store answers Url.findOne({ shortCode }) of the redirect
DbGetFind(p) ==
    /\ At(p, "getFind")
    /\ Upd(p, [req[p] EXCEPT !.pc = "getFound",
                             !.doc = FindByShortCode(store, req[p].code)])
    /\ UNCHANGED <<now, store, urlCache, nextId, started, lastShort>>
    /\ UNCHANGED rlVars

\* mutant of GetFound: the cache is refreshed before the expiry check
GetFoundCachesFirst(p) ==
    /\ At(p, "getFound")
    /\ LET r == req[p]
           cached == HmGet(urlCache, r.code)
           status == RedirectDecision(cached, r.doc, now)
       IN  /\ urlCache' = IF r.doc = NoDoc THEN urlCache
                          ELSE HmSet(urlCache, r.code, r.doc.originalUrl)
           /\ IF status # 302
              THEN Upd(p, [r EXCEPT !.pc = "done", !.status = status,
                                    !.cached = cached, !.decidedAt = now])
              ELSE Upd(p, [r EXCEPT !.pc = "getSave", !.cached = cached,
                                    !.decidedAt = now,
                                    !.doc = [r.doc EXCEPT !.clicks = @ + 1]])
    /\ UNCHANGED <<now, store, nextId, started, lastShort>>
    /\ UNCHANGED rlVars

\* GET /:shortCode after the lookup: 404, 410, or the cache is refreshed, the
\* click is counted on the document in hand and url.save() is issued
GetFound(p) ==
    /\ At(p, "getFound")
    /\ LET r == req[p]
           cached == HmGet(urlCache, r.code)
           status == RedirectDecision(cached, r.doc, now)
       IN  IF status # 302
           THEN /\ Upd(p, [r EXCEPT !.pc = "done", !.status = status,
                                    !.cached = cached, !.decidedAt = now])
                /\ UNCHANGED urlCache
           ELSE /\ urlCache' = HmSet(urlCache, r.code, r.doc.originalUrl)
                /\ Upd(p, [r EXCEPT !.pc = "getSave", !.cached = cached,
                                    !.decidedAt = now,
                                    !.doc = [r.doc EXCEPT !.clicks = @ + 1]])
    /\ UNCHANGED <<now, store, nextId, started, lastShort>>
    /\ UNCHANGED rlVars

\* the store performs url.save() of the clicked document: clicks is set and
\* the click is pushed on the record with this _id, if it still exists
DbGetSave(p) ==
    /\ At(p, "getSave")
    /\ LET r == req[p]
           at == {i \in 1..Len(store) : store[i].id = r.doc.id}
       IN  IF at = {}
           THEN /\ Upd(p, [r EXCEPT !.pc = "getSaved", !.err = "notfound",
                                    !.storeFailed = TRUE])
                /\ UNCHANGED store
           ELSE /\ store' = [i \in 1..Len(store) |->
                                IF i \in at
                                THEN [store[i] EXCEPT !.clicks = r.doc.clicks,
                                                      !.history = @ + 1]
                                ELSE store[i]]
                /\ Upd(p, [r EXCEPT !.pc = "getSaved"])
    /\ UNCHANGED <<now, urlCache, nextId, started, lastShort>>
    /\ UNCHANGED rlVars

\* GET /:shortCode after await url.save(): res.redirect, or the thrown error
GetSaved(p) ==
    /\ At(p, "getSaved")
    /\ Upd(p, [req[p] EXCEPT !.pc = "done",
                             !.status = IF req[p].err = "none" THEN 302 ELSE 500])
    /\ UNCHANGED <<now, store, urlCache, nextId, started, lastShort>>
    /\ UNCHANGED rlVars

\* DELETE /api/urls/:shortCode, up to the first await
StartDelete(p, c) ==
    /\ At(p, "idle")
    /\ started < MaxStarted
    /\ started' = started + 1
    /\ Upd(p, [Idle EXCEPT !.pc = "delFind", !.op = "delete", !.code = c])
    /\ UNCHANGED <<now, store, urlCache, nextId, lastShort>>
    /\ UNCHANGED rlVars

\* the store performs Url.findOneAndDelete({ shortCode })
DbFindOneAndDelete(p) ==
    /\ At(p, "delFind")
    /\ LET doc == FindByShortCode(store, req[p].code)
       IN  /\ store' = SelectSeq(store, LAMBDA d : d.id # doc.id)
           /\ Upd(p, [req[p] EXCEPT !.pc = "delFound", !.doc = doc])
    /\ UNCHANGED <<now, urlCache, nextId, started, lastShort>>
    /\ UNCHANGED rlVars

\* DELETE after the await: 404, or the cache entry is removed and 200 sent
DeleteFound(p) ==
    /\ At(p, "delFound")
    /\ IF req[p].doc = NoDoc
       THEN /\ Upd(p, [req[p] EXCEPT !.pc = "done", !.status = 404])
            /\ UNCHANGED urlCache
       ELSE /\ urlCache' = HmDelete(urlCache, req[p].code)
            /\ Upd(p, [req[p] EXCEPT !.pc = "done", !.status = 200])
    /\ UNCHANGED <<now, store, nextId, started, lastShort>>
    /\ UNCHANGED rlVars

\* the bulk bodies clients send: 1..MaxBulk items, valid or not
BulkItem == [url : {"http://a", "ftp://c"}, exp : {NoExpiry}]

RECURSIVE SeqsUpTo(_, _)
SeqsUpTo(S, n) ==
    IF n = 0 THEN {<< >>}
    ELSE LET shorter == SeqsUpTo(S, n - 1)
         IN  shorter \cup {Append(q, x) : q \in {y \in shorter : Len(y) = n - 1}, x \in S}

BulkBodies == SeqsUpTo(BulkItem, MaxBulk) \ {<< >>}

\* the steps of POST /api/shorten and of the allocation it shares with bulk
ShortenSteps(p) ==
    \/ DbFindOriginalUrl(p)
    \/ ShortenFoundUrl(p)
    \/ DbProbe(p)
    \/ AfterProbe(p)
    \/ DbInsert(p)
    \/ AfterInsert(p)

NextCreate ==
    \/ \E p \in Reqs : Finish(p)
    \/ \E p \in Reqs :
          \/ \E u \in Urls : StartShorten(p, u, NoExpiry)
          \/ \E items \in BulkBodies : StartBulk(p, items)
          \/ \E c \in Codes : StartDelete(p, c)
          \/ ShortenSteps(p)
          \/ BulkContinue(p)
          \/ DbFindOneAndDelete(p)
          \/ DeleteFound(p)

SpecCreate == InitWeb /\ [][NextCreate]_vars

NextRedirect ==
    \/ \E p \in Reqs : Finish(p)
    \/ TickWeb
    \/ \E p \in Reqs :
          \/ \E u \in Urls, e \in Expiries : StartShorten(p, u, e)
          \/ \E c \in Codes : StartGet(p, c)
          \/ \E c \in Codes : StartDelete(p, c)
          \/ ShortenSteps(p)
          \/ DbGetFind(p)
          \/ GetFound(p)
          \/ DbGetSave(p)
          \/ GetSaved(p)
          \/ DbFindOneAndDelete(p)
          \/ DeleteFound(p)

SpecRedirect == InitWeb /\ [][NextRedirect]_vars

----------------------------------------------------------------------------
(* The routes behind their middleware chain                                *)

\* rateLimiter.isAllowed(id) as called by rateLimitMiddleware: the effect on
\* the controller
Admission(id) ==
    LET res == IsAllowedResult(requestQueues, id, now)
        seenSeq == InWindow(admitted[id], now)
        before == QueueOf(requestQueues, id)
        n == IF id \in DOMAIN requestQueues THEN streak[id].n ELSE 0
    IN  /\ requestQueues' = IsAllowedMap(requestQueues, id, now)
        /\ last' = [op |-> "isAllowed", id |-> id, at |-> now,
                    allowed |-> res.allowed, remaining |-> res.remaining,
                    retryAfter |-> res.retryAfter,
                    seen |-> Len(seenSeq),
                    trimmed |-> Len(before) - Len(Trim(before, now)),
                    oldest |-> IF Len(seenSeq) > 0 THEN Head(seenSeq) ELSE -1]
        /\ admitted' = IF res.allowed
                       THEN [admitted EXCEPT ![id] = Append(@, now)]
                       ELSE admitted
        /\ streak' = [streak EXCEPT ![id] =
                        [n |-> IF n > MaxRequests THEN n ELSE n + 1,
                         first |-> IF n = 0 THEN now ELSE @.first]]

\* mutant of TooManyRequests: the hint is rounded up to the next second
TooManyRequestsOneMore(p, op, result) ==
    Upd(p, [Idle EXCEPT !.pc = "done", !.op = op, !.status = 429,
                        !.retryAfter = result.retryAfter + 1])

\* rateLimitMiddleware answers 429 with retryAfter: result.retryAfter and does
\* not call next()
TooManyRequests(p, op, result) ==
    Upd(p, [Idle EXCEPT !.pc = "done", !.op = op, !.status = 429,
                        !.retryAfter = result.retryAfter])

\* res.setHeader("X-RateLimit-Remaining", result.remaining); next()
Admitted(slot, result) ==
    [slot EXCEPT !.passed = TRUE, !.rateRemaining = result.remaining]

\* mutant of PostShorten: validateShortenRequest is mounted before
\* rateLimitMiddleware, a request it refuses never reaches the controller
PostShortenValidatesFirst(p, id, u, e) ==
    /\ At(p, "idle")
    /\ started < MaxStarted
    /\ started' = started + 1
    /\ IF ~PassesValidation(u)
       THEN /\ Upd(p, [Idle EXCEPT !.pc = "done", !.op = "shorten", !.url = u,
                                   !.exp = e, !.status = 400])
            /\ UNCHANGED rlVars
       ELSE /\ Admission(id)
            /\ IF ~IsAllowedResult(requestQueues, id, now).allowed
               THEN TooManyRequests(p, "shorten",
                                    IsAllowedResult(requestQueues, id, now))
               ELSE IF BadExpiry(e, now)
               THEN Upd(p, Admitted([Idle EXCEPT !.pc = "done", !.op = "shorten",
                                                 !.url = u, !.exp = e,
                                                 !.status = 400],
                                    IsAllowedResult(requestQueues, id, now)))
               ELSE Upd(p, Admitted([Idle EXCEPT !.pc = "findUrl",
                                                 !.op = "shorten", !.url = u,
                                                 !.exp = e, !.prior = lastShort[u]],
                                    IsAllowedResult(requestQueues, id, now)))
    /\ UNCHANGED <<now, store, urlCache, nextId, lastShort>>

\* router.post("/api/shorten", rateLimitMiddleware, validateShortenRequest,
\* handler), up to the handler's first await
PostShorten(p, id, u, e) ==
    /\ At(p, "idle")
    /\ started < MaxStarted
    /\ started' = started + 1
    /\ Admission(id)
    /\ IF ~IsAllowedResult(requestQueues, id, now).allowed
       THEN TooManyRequests(p, "shorten", IsAllowedResult(requestQueues, id, now))
       ELSE IF ~PassesValidation(u) \/ BadExpiry(e, now)
       THEN Upd(p, Admitted([Idle EXCEPT !.pc = "done", !.op = "shorten",
                                         !.url = u, !.exp = e, !.status = 400],
                            IsAllowedResult(requestQueues, id, now)))
       ELSE Upd(p, Admitted([Idle EXCEPT !.pc = "findUrl", !.op = "shorten",
                                         !.url = u, !.exp = e,
                                         !.prior = lastShort[u]],
                            IsAllowedResult(requestQueues, id, now)))
    /\ UNCHANGED <<now, store, urlCache, nextId, lastShort>>

\* router.post("/api/bulk-shorten", rateLimitMiddleware, handler), up to the
\* handler's first await
PostBulk(p, id, items) ==
    /\ At(p, "idle")
    /\ started < MaxStarted
    /\ started' = started + 1
    /\ \A q \in Reqs : req[q].op # "bulk"
    /\ Admission(id)
    /\ IF ~IsAllowedResult(requestQueues, id, now).allowed
       THEN TooManyRequests(p, "bulk", IsAllowedResult(requestQueues, id, now))
       ELSE IF BadBulkArray(items)
       THEN Upd(p, Admitted([Idle EXCEPT !.pc = "done", !.op = "bulk",
                                         !.status = 400],
                            IsAllowedResult(requestQueues, id, now)))
       ELSE \E c \in Codes :
               Upd(p, BulkNext(Admitted([Idle EXCEPT !.op = "bulk",
                                                     !.total = Len(items)],
                                        IsAllowedResult(requestQueues, id, now)),
                               items, << >>, << >>, c, now))
    /\ UNCHANGED <<now, store, urlCache, nextId, lastShort>>

\* router.patch("/api/urls/:shortCode/expiration", validateShortCode,
\* handler), up to the first await
StartPatch(p, c, e) ==
    /\ At(p, "idle")
    /\ started < MaxStarted
    /\ started' = started + 1
    /\ Upd(p, [Idle EXCEPT !.pc = "patchFind", !.op = "patch", !.code = c, !.exp = e])
    /\ UNCHANGED <<now, store, urlCache, nextId, lastShort>>
    /\ UNCHANGED rlVars

\* the store answers Url.findOne({ shortCode }) of the expiration update
DbPatchFind(p) ==
    /\ At(p, "patchFind")
    /\ Upd(p, [req[p] EXCEPT !.pc = "patchFound",
                             !.doc = FindByShortCode(store, req[p].code)])
    /\ UNCHANGED <<now, store, urlCache, nextId, started, lastShort>>
    /\ UNCHANGED rlVars

\* PATCH after the lookup: 404, 400 for an expiry that is not in the future,
\* or expiresAt is set on the document in hand and url.save() is issued
PatchFound(p) ==
    /\ At(p, "patchFound")
    /\ LET r == req[p]
       IN  IF r.doc = NoDoc
           THEN Upd(p, [r EXCEPT !.pc = "done", !.status = 404])
           ELSE IF BadExpiry(r.exp, now)
           THEN Upd(p, [r EXCEPT !.pc = "done", !.status = 400])
           ELSE Upd(p, [r EXCEPT !.pc = "patchSave",
                                 !.doc = [r.doc EXCEPT !.expiresAt = r.exp]])
    /\ UNCHANGED <<now, store, urlCache, nextId, started, lastShort>>
    /\ UNCHANGED rlVars

\* the store performs url.save() of the document with its new expiresAt, if
\* the record with this _id still exists
DbPatchSave(p) ==
    /\ At(p, "patchSave")
    /\ LET r == req[p]
           at == {i \in 1..Len(store) : store[i].id = r.doc.id}
       IN  IF at = {}
           THEN /\ Upd(p, [r EXCEPT !.pc = "patchSaved", !.err = "notfound",
                                    !.storeFailed = TRUE])
                /\ UNCHANGED store
           ELSE /\ store' = [i \in 1..Len(store) |->
                                IF i \in at
                                THEN [store[i] EXCEPT !.expiresAt = r.doc.expiresAt]
                                ELSE store[i]]
                /\ Upd(p, [r EXCEPT !.pc = "patchSaved"])
    /\ UNCHANGED <<now, urlCache, nextId, started, lastShort>>
    /\ UNCHANGED rlVars

\* PATCH after await url.save(): 200, or the thrown error
PatchSaved(p) ==
    /\ At(p, "patchSaved")
    /\ Upd(p, [req[p] EXCEPT !.pc = "done",
                             !.status = IF req[p].err = "none" THEN 200 ELSE 500])
    /\ UNCHANGED <<now, store, urlCache, nextId, started, lastShort>>
    /\ UNCHANGED rlVars

\* the bulk bodies with one item
SingleItemBodies == {items \in BulkBodies : Len(items) = 1}

NextAdmit ==
    \/ \E p \in Reqs : Finish(p)
    \/ \E p \in Reqs :
          \/ \E id \in Identifiers, u \in Urls : PostShorten(p, id, u, NoExpiry)
          \/ \E id \in Identifiers, items \in SingleItemBodies : PostBulk(p, id, items)
          \/ \E c \in Codes : StartDelete(p, c)
          \/ \E c \in Codes, e \in Expiries : StartPatch(p, c, e)
          \/ ShortenSteps(p)
          \/ BulkContinue(p)
          \/ DbFindOneAndDelete(p)
          \/ DeleteFound(p)
          \/ DbPatchFind(p)
          \/ PatchFound(p)
          \/ DbPatchSave(p)
          \/ PatchSaved(p)

SpecAdmit == InitWeb /\ [][NextAdmit]_vars

\* POST /api/shorten behind rateLimitMiddleware, one request at a time, while
\* the controller's clock runs through a whole window
NextLimit ==
    \/ Tick
    \/ \E p \in Reqs : Finish(p)
    \/ \E p \in Reqs :
          \/ \E id \in Identifiers, u \in Urls :
                 /\ \A q \in Reqs : req[q].pc = "idle"
                 /\ PostShorten(p, id, u, NoExpiry)
          \/ ShortenSteps(p)

SpecLimit == InitWeb /\ [][NextLimit]_vars

\* the bodies clients post to /api/bulk-shorten: no item, 1..MaxBulk items,
\* or one item too many
AllBulkBodies == SeqsUpTo(BulkItem, MaxBulk + 1)

\* the two rate-limited routes with every kind of body, one request at a
\* time, the clock moving between the requests
NextValidate ==
    \/ TickWeb /\ \A q \in Reqs : req[q].pc = "idle"
    \/ \E p \in Reqs : Finish(p)
    \/ \E p \in Reqs :
          \/ \E id \in Identifiers, u \in UrlInputs \cup {MissingUrl}, e \in Expiries :
                 /\ \A q \in Reqs : req[q].pc = "idle"
                 /\ PostShorten(p, id, u, e)
          \/ \E id \in Identifiers, items \in AllBulkBodies :
                 /\ \A q \in Reqs : req[q].pc = "idle"
                 /\ PostBulk(p, id, items)
          \/ ShortenSteps(p)
          \/ BulkContinue(p)

SpecValidate == InitWeb /\ [][NextValidate]_vars

\* the accepted bulk bodies, their elements objects or null
BulkBodiesWithNull == SeqsUpTo(BulkItem \cup {NullItem}, MaxBulk) \ {<< >>}

\* POST /api/bulk-shorten with any accepted array, beside POST /api/shorten
NextBulk ==
    \/ \E p \in Reqs : Finish(p)
    \/ \E p \in Reqs :
          \/ \E items \in BulkBodiesWithNull : StartBulk(p, items)
          \/ \E u \in Urls : StartShorten(p, u, NoExpiry)
          \/ ShortenSteps(p)
          \/ BulkContinue(p)

SpecBulk == InitWeb /\ [][NextBulk]_vars

----------------------------------------------------------------------------
(* Claims about the admission controller, checked under SpecRL             *)

\* C1: for an identifier with no tracked window, the i-th of the first
\* maxRequests isAllowed calls made within windowMs of the first one is
\* admitted and reports remaining = maxRequests - i.
C1_FirstCallsAdmitted ==
    last.op = "isAllowed" =>
        LET s == streak[last.id]
        IN  (s.n <= MaxRequests /\ last.at <= s.first + WindowMs)
                => (last.allowed /\ last.remaining = MaxRequests - s.n)

\* the last of the first maxRequests calls, made later than the first, reports 0
C1_Witness ==
    /\ last.op = "isAllowed"
    /\ streak[last.id].n = MaxRequests
    /\ last.at > streak[last.id].first
    /\ last.at <= streak[last.id].first + WindowMs
    /\ last.allowed
    /\ last.remaining = 0

\* C2 as claimed: once maxRequests admitted timestamps lie in the window, a
\* further call is rejected with retryAfter strictly greater than 0.
C2_RejectedWithPositiveRetry ==
    (last.op = "isAllowed" /\ last.seen >= MaxRequests)
        => (~last.allowed /\ last.retryAfter > 0)

\* C2 as amended: such a call is rejected with retryAfter >= 0, and with
\* retryAfter > 0 whenever the oldest admitted timestamp of the window is less
\* than windowMs old.
C2_RejectedWithRetryHint ==
    (last.op = "isAllowed" /\ last.seen >= MaxRequests)
        => /\ ~last.allowed
           /\ last.retryAfter >= 0
           /\ (last.at < last.oldest + WindowMs => last.retryAfter > 0)

\* a rejection whose oldest timestamp is exactly windowMs old, and reports 0
C2_Witness ==
    /\ last.op = "isAllowed"
    /\ last.seen >= MaxRequests
    /\ ~last.allowed
    /\ last.at = last.oldest + WindowMs
    /\ last.retryAfter = 0

\* C3: isAllowed runs as one step, and any maxRequests + 1 admissions of one
\* identifier span more than windowMs, so no interval of width windowMs holds
\* more than maxRequests of them.
C3_NeverOverBudget ==
    \A id \in Identifiers :
        \A i \in 1..Len(admitted[id]) :
            (i + MaxRequests <= Len(admitted[id]))
                => admitted[id][i + MaxRequests] - admitted[id][i] > WindowMs

\* both identifiers were admitted beyond the budget over time, and one was just rejected
C3_Witness ==
    /\ \A id \in Identifiers : Len(admitted[id]) > MaxRequests
    /\ last.op = "isAllowed"
    /\ ~last.allowed

\* C4: a call is admitted whenever fewer than maxRequests of the identifier's
\* admitted timestamps lie in [now - windowMs, now].
C4_ExpiredTimestampsFreeBudget ==
    (last.op = "isAllowed" /\ last.seen < MaxRequests) => last.allowed

\* admitted again after maxRequests earlier admissions, with expired timestamps dequeued
C4_Witness ==
    /\ last.op = "isAllowed"
    /\ last.allowed
    /\ Len(admitted[last.id]) > MaxRequests
    /\ last.trimmed > 0
    /\ last.seen > 0

\* C5: right after isAllowed(X) the window of X, and right after cleanup()
\* every tracked window, holds no timestamp older than now - windowMs.
C5_NoExpiredTimestampLeft ==
    /\ last.op = "isAllowed" =>
            \A i \in 1..Len(requestQueues[last.id]) :
                requestQueues[last.id][i] >= last.at - WindowMs
    /\ last.op = "cleanup" =>
            \A id \in DOMAIN requestQueues :
                \A i \in 1..Len(requestQueues[id]) :
                    requestQueues[id][i] >= last.at - WindowMs

\* an isAllowed call that dequeued two expired timestamps
C5_Witness ==
    /\ last.op = "isAllowed"
    /\ last.trimmed >= 2

\* C6: cleanup() keeps exactly the identifiers with a timestamp inside the
\* window, each with all of its in-window timestamps, and leaves no empty window.
C6_CleanupRemovesExpiredIdentifiers ==
    last.op = "cleanup" =>
        /\ DOMAIN requestQueues =
              {id \in DOMAIN last.pre :
                  \E i \in 1..Len(last.pre[id]) : last.pre[id][i] >= last.at - WindowMs}
        /\ \A id \in DOMAIN requestQueues :
              /\ requestQueues[id] =
                    SelectSeq(last.pre[id], LAMBDA x : x >= last.at - WindowMs)
              /\ Len(requestQueues[id]) > 0

\* a sweep that removed one identifier and kept the other with part of its window
C6_Witness ==
    /\ last.op = "cleanup"
    /\ DOMAIN last.pre = Identifiers
    /\ Cardinality(DOMAIN requestQueues) = 1
    /\ \E id \in DOMAIN requestQueues :
          Len(requestQueues[id]) < Len(last.pre[id])

\* C23: reset(X) drops X's window and leaves every other window as it was;
\* afterwards getRequestCount(X) is 0, and the first isAllowed(X) on an
\* untracked identifier (never seen, or just reset) is admitted with
\* remaining = MaxRequests - 1, the result an empty controller gives.
C23_ResetDropsWindow ==
    /\ last.op = "reset" =>
          /\ last.id \notin DOMAIN requestQueues
          /\ RequestCount(requestQueues, last.id) = 0
          /\ DOMAIN requestQueues = DOMAIN last.pre \ {last.id}
          /\ \A id \in DOMAIN requestQueues : requestQueues[id] = last.pre[id]
          /\ IsAllowedResult(requestQueues, last.id, now) =
                IsAllowedResult(<< >>, last.id, now)
    /\ (last.op = "isAllowed" /\ streak[last.id].n = 1) =>
          /\ last.allowed
          /\ last.remaining = MaxRequests - 1
          /\ requestQueues[last.id] = <<last.at>>

\* the first isAllowed after a reset is admitted although the identifier had
\* already used up its window
C23_Witness ==
    /\ last.op = "isAllowed"
    /\ streak[last.id].n = 1
    /\ last.seen >= MaxRequests
    /\ last.allowed
    /\ last.remaining = MaxRequests - 1

\* C24: getRequestCount(X) returns 0 for an untracked identifier and otherwise
\* the length of X's stored window, expired timestamps included, and changes
\* nothing: no window is created and no timestamp removed.
C24_CountIsStoredLength ==
    last.op = "getRequestCount" =>
        /\ last.ret = IF last.id \in DOMAIN last.pre
                      THEN Len(last.pre[last.id]) ELSE 0
        /\ requestQueues = last.pre
        /\ last.id \notin DOMAIN last.pre =>
              (last.ret = 0 /\ last.id \notin DOMAIN requestQueues)

\* a count that includes timestamps that have left the window
C24_Witness ==
    /\ last.op = "getRequestCount"
    /\ last.id \in DOMAIN requestQueues
    /\ last.ret = Len(requestQueues[last.id])
    /\ last.ret > Len(Trim(requestQueues[last.id], now))

\* C25: cleanup() never changes what isAllowed returns: every result (allowed,
\* remaining, retryAfter) is the one a controller that keeps every admitted
\* timestamp and is never swept returns for the same calls at the same times.
C25_CleanupNotNeeded ==
    last.op = "isAllowed" =>
        LET h == admitted[last.id]
            earlier == IF last.allowed THEN SubSeq(h, 1, Len(h) - 1) ELSE h
            unswept == IsAllowedResult(MapSet(<< >>, last.id, earlier),
                                       last.id, last.at)
        IN  /\ last.allowed = unswept.allowed
            /\ last.remaining = unswept.remaining
            /\ last.retryAfter = unswept.retryAfter

\* an isAllowed on an identifier whose earlier window a sweep had deleted
C25_Witness ==
    /\ last.op = "isAllowed"
    /\ streak[last.id].n = 1
    /\ Len(admitted[last.id]) >= 2
    /\ last.allowed

\* C27: every rejection reports retryAfter = ceil((oldest + windowMs - now) /
\* 1000) for the oldest timestamp left in the window after trimming, and is
\* returned only when the trimmed window holds at least maxRequests timestamps.
C27_RetryAfterFromOldest ==
    (last.op = "isAllowed" /\ ~last.allowed) =>
        LET queue == requestQueues[last.id]
        IN  /\ Len(queue) >= MaxRequests
            /\ queue = Trim(queue, last.at)
            /\ Head(queue) >= last.at - WindowMs
            /\ Head(queue) = last.oldest
            /\ (last.retryAfter - 1) * MsPerSec < Head(queue) + WindowMs - last.at
            /\ Head(queue) + WindowMs - last.at <= last.retryAfter * MsPerSec

\* a rejection whose waiting time is not a whole number of seconds
C27_Witness ==
    /\ last.op = "isAllowed"
    /\ ~last.allowed
    /\ (last.oldest + WindowMs - last.at) % MsPerSec # 0
    /\ last.retryAfter = 1

\* C29: every identifier's window is ordered oldest first, its timestamps
\* non-decreasing in insertion order, so the trim from the front removes
\* exactly the expired timestamps.
C29_WindowsOrdered ==
    \A id \in DOMAIN requestQueues :
        LET queue == requestQueues[id]
        IN  /\ \A i \in 1..(Len(queue) - 1) : queue[i] <= queue[i + 1]
            /\ Trim(queue, now) =
                  SelectSeq(queue, LAMBDA x : ~(x < now - WindowMs))

\* a window with two different timestamps, the older of them expired but not
\* yet trimmed
C29_Witness ==
    \E id \in DOMAIN requestQueues :
        LET queue == requestQueues[id]
        IN  /\ Len(queue) = 2
            /\ queue[1] < queue[2]
            /\ Trim(queue, now) = <<queue[2]>>

\* C31: isAllowed(A), reset(A) and getRequestCount(A) leave the window of
\* every other identifier B as it was, tracked or untracked, and with it the
\* result that isAllowed(B) would return.
C31_OtherIdentifiersUntouched ==
    [][(last' # last /\ last'.op \in {"isAllowed", "reset", "getRequestCount"}) =>
          \A B \in Identifiers \ {last'.id} :
              /\ (B \in DOMAIN requestQueues') = (B \in DOMAIN requestQueues)
              /\ QueueOf(requestQueues', B) = QueueOf(requestQueues, B)
              /\ RequestCount(requestQueues', B) = RequestCount(requestQueues, B)
              /\ IsAllowedResult(requestQueues', B, now') =
                    IsAllowedResult(requestQueues, B, now)]_vars

\* a reset of a tracked identifier next to another identifier whose window,
\* expired timestamp included, is the one before the call
C31_Witness ==
    /\ last.op = "reset"
    /\ last.id \in DOMAIN last.pre
    /\ \E B \in DOMAIN requestQueues :
          /\ B # last.id
          /\ requestQueues[B] = last.pre[B]
          /\ Len(Trim(requestQueues[B], now)) < Len(requestQueues[B])

\* C32: right after any isAllowed call the called identifier's window holds at
\* most maxRequests timestamps, and an admitted call reports a remaining value
\* between 0 and maxRequests - 1.
C32_WindowAtMostMax ==
    last.op = "isAllowed" =>
        /\ last.id \in DOMAIN requestQueues
        /\ Len(requestQueues[last.id]) <= MaxRequests
        /\ last.allowed =>
              /\ last.remaining \in 0..(MaxRequests - 1)
              /\ last.remaining = MaxRequests - Len(requestQueues[last.id])

\* the admitted call that fills the window: remaining is 0
C32_Witness ==
    /\ last.op = "isAllowed"
    /\ last.allowed
    /\ last.remaining = 0
    /\ Len(requestQueues[last.id]) = MaxRequests

\* C33: a rejected isAllowed(X) appends nothing: X's window afterwards is the
\* window before the call with the expired timestamps trimmed, and at every
\* later time isAllowed(X) returns what it would have returned without the
\* rejected call, so rejections do not postpone the next admission.
C33_RejectionRecordsNothing ==
    [][(last' # last /\ last'.op = "isAllowed" /\ ~last'.allowed) =>
          /\ requestQueues'[last'.id] = Trim(QueueOf(requestQueues, last'.id), now)
          /\ admitted' = admitted
          /\ \A t \in TimePoints :
                t >= now =>
                   IsAllowedResult(requestQueues', last'.id, t) =
                      IsAllowedResult(requestQueues, last'.id, t)]_vars

\* a rejected call made later than the admissions that fill the window, which
\* still holds exactly those admissions
C33_Witness ==
    /\ last.op = "isAllowed"
    /\ ~last.allowed
    /\ requestQueues[last.id] = InWindow(admitted[last.id], now)
    /\ Len(requestQueues[last.id]) = MaxRequests
    /\ \A i \in 1..MaxRequests : requestQueues[last.id][i] < last.at

----------------------------------------------------------------------------
(* The HashMap driven call by call                                         *)

InitHM ==
    /\ now = 0
    /\ requestQueues = << >>
    /\ last = NoCacheCall
    /\ admitted = [id \in Identifiers |-> << >>]
    /\ streak = [id \in Identifiers |-> [n |-> 0, first |-> 0]]
    /\ WebInitVars

hmFrame == <<now, requestQueues, admitted, streak, store, req, nextId, started, lastShort>>

\* urlCache.set(k, v)
Set(k, v) ==
    /\ urlCache' = HmSet(urlCache, k, v)
    /\ last' = CacheCall("set", k, v, Null, [last.live EXCEPT ![k] = v])
    /\ UNCHANGED hmFrame

\* urlCache.get(k)
Get(k) ==
    /\ last' = CacheCall("get", k, Null, HmGet(urlCache, k), last.live)
    /\ UNCHANGED urlCache
    /\ UNCHANGED hmFrame

\* urlCache.delete(k)
Delete(k) ==
    /\ urlCache' = HmDelete(urlCache, k)
    /\ last' = CacheCall("delete", k, Null, HmDeleteReturns(urlCache, k),
                         [last.live EXCEPT ![k] = Null])
    /\ UNCHANGED hmFrame

\* urlCache.has(k)
Has(k) ==
    /\ last' = CacheCall("has", k, Null, HmHas(urlCache, k), last.live)
    /\ UNCHANGED urlCache
    /\ UNCHANGED hmFrame

\* urlCache.keys()
Keys ==
    /\ last' = CacheCall("keys", NoCode, Null, HmKeys(urlCache), last.live)
    /\ UNCHANGED urlCache
    /\ UNCHANGED hmFrame

\* urlCache.getCount()
GetCount ==
    /\ last' = CacheCall("getCount", NoCode, Null, HmGetCount(urlCache), last.live)
    /\ UNCHANGED urlCache
    /\ UNCHANGED hmFrame

\* urlCache.clear()
Clear ==
    /\ urlCache' = HmClear(urlCache)
    /\ last' = CacheCall("clear", NoCode, Null, Null, [k \in CacheKeys |-> Null])
    /\ UNCHANGED hmFrame

NextHM ==
    \/ \E k \in CacheKeys, v \in CacheValues : Set(k, v)
    \/ \E k \in CacheKeys : Get(k)
    \/ \E k \in CacheKeys : Delete(k)
    \/ \E k \in CacheKeys : Has(k)
    \/ Keys
    \/ GetCount
    \/ Clear

SpecHM == InitHM /\ [][NextHM]_vars

----------------------------------------------------------------------------
(* Claims about the HashMap cache                                          *)

\* C12 (SpecHM): after set(k, v1) directly followed by set(k, v2), get(k)
\* returns v2 and getCount() is what it was after the first set, whatever
\* other keys are in k's bucket; more generally a set of a live key changes
\* no count.
C12_OverwriteKeepsCount ==
    /\ (last.op = "set" /\ last.prevOp = "set" /\ last.prevKey = last.key)
          => /\ HmGet(urlCache, last.key) = last.value
             /\ HmGetCount(urlCache) = HmGetCount(last.pre)
    /\ (last.op = "set" /\ last.wasLive)
          => /\ HmGet(urlCache, last.key) = last.value
             /\ HmGetCount(urlCache) = HmGetCount(last.pre)

\* a key sharing its bucket with another key was set twice in a row, to two
\* different values
C12_Witness ==
    /\ last.op = "set"
    /\ last.prevOp = "set"
    /\ last.prevKey = last.key
    /\ HmGet(last.pre, last.key) \notin {Null, last.value}
    /\ HmGet(urlCache, last.key) = last.value
    /\ Len(urlCache.buckets[Hash(last.key)]) = 2
    /\ urlCache.buckets[Hash(last.key)][1][1] # last.key
    /\ HmGetCount(urlCache) = HmGetCount(last.pre)

----------------------------------------------------------------------------
\* C13 (SpecHM): set(k2, _) and delete(k2) leave get(k1) as it was for every
\* key k1 # k2, keys of k2's bucket included, and get, has, keys and getCount
\* leave the whole map as it was: an entry stays retrievable with its value
\* until it is itself overwritten, deleted or the cache is cleared.
C13_OtherKeysUntouched ==
    /\ last.op \in {"set", "delete"}
          => \A k1 \in CacheKeys \ {last.key} :
                HmGet(urlCache, k1) = HmGet(last.pre, k1)
    /\ last.op \in {"get", "has", "keys", "getCount"} => urlCache = last.pre
    /\ \A k \in CacheKeys : HmGet(urlCache, k) = last.live[k]

\* the first entry of a bucket was deleted and the entry behind it, of another
\* key, is still retrievable with its value while every key has been set
C13_Witness ==
    /\ last.op = "delete"
    /\ last.ret = TRUE
    /\ Len(last.pre.buckets[Hash(last.key)]) = 2
    /\ last.pre.buckets[Hash(last.key)][1][1] = last.key
    /\ \E k1 \in CacheKeys \ {last.key} :
          /\ Hash(k1) = Hash(last.key)
          /\ HmGet(urlCache, k1) # Null
          /\ HmGet(urlCache, k1) = HmGet(last.pre, k1)
    /\ HmGetCount(last.pre) = Cardinality(CacheKeys)

----------------------------------------------------------------------------
\* C14 (SpecHM): delete(k) returns true exactly when k has a live entry, that
\* is when k was set and not deleted or cleared since; it then removes the
\* entry and takes one off the count; when it returns false the map is as it
\* was. A delete directly after a delete of the same key returns false.
C14_DeleteTrueOncePerLiveKey ==
    last.op = "delete" =>
        /\ last.ret = last.wasLive
        /\ last.ret = (HmGet(last.pre, last.key) # Null)
        /\ last.ret => /\ HmGet(urlCache, last.key) = Null
                       /\ HmGetCount(urlCache) = HmGetCount(last.pre) - 1
        /\ ~last.ret => urlCache = last.pre
        /\ (last.prevOp = "delete" /\ last.prevKey = last.key) => ~last.ret

\* the first delete of a live key returned true and the delete of the same
\* key right after it false, with another key still live in its bucket
C14_Witness ==
    /\ last.op = "delete"
    /\ last.prevOp = "delete"
    /\ last.prevKey = last.key
    /\ last.prevRet = TRUE
    /\ last.ret = FALSE
    /\ Len(urlCache.buckets[Hash(last.key)]) = 1
    /\ urlCache = last.pre

----------------------------------------------------------------------------
\* C16 (SpecHM): after any sequence of set, delete and clear calls getCount()
\* is the number of entries in all buckets together, which is the number of
\* keys keys() returns, and it is never negative.
C16_CountIsNumberOfEntries ==
    LET slots == (0..(HashSize - 1)) \X (1..Cardinality(CacheKeys))
        entries == {s \in slots : s[2] <= Len(urlCache.buckets[s[1]])}
    IN  /\ \A b \in DOMAIN urlCache.buckets :
              Len(urlCache.buckets[b]) <= Cardinality(CacheKeys)
        /\ HmGetCount(urlCache) = Cardinality(entries)
        /\ HmGetCount(urlCache) = Len(HmKeys(urlCache))
        /\ HmGetCount(urlCache) >= 0
        /\ last.op = "getCount" => last.ret = Cardinality(entries)
        /\ last.op = "keys" => Len(last.ret) = HmGetCount(urlCache)

\* getCount() was called after a delete that removed an entry from a bucket
\* of two, and entries are left in two buckets
C16_Witness ==
    /\ last.op = "getCount"
    /\ last.prevOp = "delete"
    /\ last.prevRet = TRUE
    /\ last.ret = 2
    /\ Len(urlCache.buckets[Hash(last.prevKey)]) = 1
    /\ Len(HmKeys(urlCache)) = 2

----------------------------------------------------------------------------
\* C17 (SpecHM): the HashMap is a key-to-value map. After any sequence of
\* set, delete and clear calls over keys that share buckets, get(k) returns
\* null exactly when k has no live entry (never set, or deleted or cleared
\* since its last set) and otherwise the value of the most recent set(k, _);
\* has(k) is true exactly when k has a live entry. null is no value a set
\* is called with.
C17_RefinesAbstractMap ==
    /\ Null \notin CacheValues
    /\ \A k \in CacheKeys :
          /\ HmGet(urlCache, k) = last.live[k]
          /\ (HmGet(urlCache, k) = Null) <=> (last.live[k] = Null)
          /\ HmHas(urlCache, k) <=> (last.live[k] # Null)
    /\ last.op = "get" => last.ret = last.live[last.key]
    /\ last.op = "has" => (last.ret <=> (last.live[last.key] # Null))

\* get(k) returned the value of k's last set for a key that is the second
\* entry of its bucket, behind an entry with another value, while a third key
\* is absent
C17_Witness ==
    /\ last.op = "get"
    /\ last.ret # Null
    /\ last.ret = last.live[last.key]
    /\ Len(urlCache.buckets[Hash(last.key)]) = 2
    /\ urlCache.buckets[Hash(last.key)][2][1] = last.key
    /\ urlCache.buckets[Hash(last.key)][1][2] # last.ret
    /\ \E k \in CacheKeys : last.live[k] = Null /\ ~HmHas(urlCache, k)

----------------------------------------------------------------------------
(* Claims about the request handlers                                       *)

\* C7 (SpecCreate): a POST /api/shorten that starts after an earlier one for
\* the same originalUrl has completed with a shortCode, and that finds the
\* record of that shortCode as the one record of the URL, answers 200 with the
\* same shortCode and creates no record.
C7_IdempotentCreate ==
    \A p \in Reqs :
        (/\ req[p].pc = "done"
         /\ req[p].op = "shorten"
         /\ req[p].prior # NoCode
         /\ req[p].solo)
            => /\ req[p].status = 200
               /\ req[p].code = req[p].prior
               /\ ~req[p].created

\* a second POST for the same URL has been answered with the first one's code
C7_Witness ==
    \E p \in Reqs :
        /\ req[p].pc = "done"
        /\ req[p].op = "shorten"
        /\ req[p].prior # NoCode
        /\ req[p].solo
        /\ req[p].status = 200
        /\ req[p].code = req[p].prior
        /\ Len(SelectSeq(store, LAMBDA d : d.originalUrl = req[p].url)) = 1

\* C8: the store holds at most one canonical record per originalUrl, under
\* any interleaving of creation requests on any creation path.
C8_OneRecordPerUrl ==
    \A i, j \in 1..Len(store) :
        store[i].originalUrl = store[j].originalUrl => i = j

\* C9 (SpecRedirect): a GET /:shortCode whose record, as read from the store,
\* has expiresAt in the past when the handler decides is answered 410 and is
\* not redirected, whatever the cache holds for the code.
C9_ExpiredNeverRedirected ==
    \A p \in Reqs :
        (/\ req[p].op = "get"
         /\ req[p].pc \in {"getSave", "getSaved", "done"}
         /\ req[p].doc # NoDoc
         /\ req[p].doc.expiresAt # NoExpiry
         /\ req[p].doc.expiresAt < req[p].decidedAt)
            => (req[p].pc = "done" /\ req[p].status = 410)

\* an expired code was refused while the cache held an entry for it
C9_Witness ==
    \E p \in Reqs :
        /\ req[p].op = "get"
        /\ req[p].pc = "done"
        /\ req[p].status = 410
        /\ req[p].doc.expiresAt < req[p].decidedAt
        /\ req[p].cached = req[p].doc.originalUrl
        /\ HmGet(urlCache, req[p].code) = req[p].doc.originalUrl

\* C10 (SpecCreate): an allocation probes the store at most maxAttempts (5)
\* times; it yields the code of its first probe reported unused, right after
\* that probe; and it ends exhausted exactly when 5 probes were all reported
\* taken.
C10_BoundedAllocation ==
    \A p \in Reqs :
        /\ req[p].probes <= MaxAttempts
        /\ req[p].alloc = "ok" =>
              /\ req[p].firstFree = req[p].probes
              /\ req[p].firstFree >= 1
              /\ req[p].code = req[p].freeCode
        /\ req[p].alloc = "exhausted" =>
              /\ req[p].probes = MaxAttempts
              /\ req[p].firstFree = 0
        /\ (req[p].probes = MaxAttempts /\ req[p].firstFree = 0
                /\ req[p].pc \notin {"probe", "probed"})
              => req[p].alloc = "exhausted"

\* four probes were reported taken and the fifth free: the fifth code is the
\* one the request saved under
C10_Witness ==
    \E p \in Reqs :
        /\ req[p].alloc = "ok"
        /\ req[p].probes = MaxAttempts
        /\ req[p].firstFree = MaxAttempts
        /\ req[p].pc = "inserted"
        /\ req[p].created
        /\ req[p].doc.shortCode = req[p].freeCode

\* C11 (SpecCreate): when the fifth probe of a POST /api/shorten has been
\* reported taken like the four before it, the handler's next step answers
\* 500 without probing again, creates no record and leaves the store and the
\* cache as they are; the answered request then only leaves its slot.
C11_ExhaustedFailsOnce ==
    [][\A p \in Reqs :
          /\ (/\ req[p].op = "shorten"
              /\ req[p].pc = "probed"
              /\ req[p].probes = MaxAttempts
              /\ req[p].firstFree = 0
              /\ req'[p] # req[p])
                => /\ req'[p].pc = "done"
                   /\ req'[p].status = 500
                   /\ req'[p].probes = MaxAttempts
                   /\ ~req'[p].created
                   /\ store' = store
                   /\ urlCache' = urlCache
                   /\ nextId' = nextId
          /\ (/\ req[p].op = "shorten"
              /\ req[p].pc = "done"
              /\ req[p].status = 500
              /\ req'[p] # req[p])
                => /\ req'[p] = Idle
                   /\ store' = store
                   /\ urlCache' = urlCache]_vars

\* a POST /api/shorten has been answered 500 after five taken probes
C11_Witness ==
    \E p \in Reqs :
        /\ req[p].op = "shorten"
        /\ req[p].pc = "done"
        /\ req[p].status = 500
        /\ req[p].alloc = "exhausted"
        /\ req[p].probes = MaxAttempts
        /\ req[p].firstFree = 0
        /\ ~req[p].created
        /\ \A c \in Codes : \E i \in 1..Len(store) : store[i].shortCode = c

\* C15 (SpecRedirect): however the steps of concurrent handlers interleave,
\* every bucket of the cache holds pairwise-distinct keys, each in the bucket
\* of its hash, and the count is the number of entries: two handlers that
\* insert the same short code leave one entry for it.
C15_OneEntryPerKey ==
    /\ \A b \in DOMAIN urlCache.buckets :
          \A i, j \in 1..Len(urlCache.buckets[b]) :
              /\ Hash(urlCache.buckets[b][i][1]) = b
              /\ urlCache.buckets[b][i][1] = urlCache.buckets[b][j][1] => i = j
    /\ HmGetCount(urlCache) = Len(HmKeys(urlCache))

\* two redirect handlers in flight have both put the same short code into the
\* cache, which held it already when the second did, and it has one entry
C15_Witness ==
    \E p, q \in Reqs :
        /\ p # q
        /\ req[p].op = "get" /\ req[p].pc = "getSave"
        /\ req[q].op = "get" /\ req[q].pc = "getSave"
        /\ req[p].code = req[q].code
        /\ req[q].cached # Null
        /\ Len(urlCache.buckets[Hash(req[p].code)]) = 1
        /\ HmGet(urlCache, req[p].code) = req[p].doc.originalUrl

C19_AllocatePersistCache ==
    [][\A p \in Reqs :
          (req[p].op \in {"shorten", "bulk"} /\ req'[p] # req[p]) =>
              /\ req[p].pc \in {"probe", "probed", "insert"} => urlCache' = urlCache
              /\ store' # store
                    => /\ req[p].pc = "insert"
                       /\ req[p].alloc = "ok"
                       /\ store' = Append(store, req'[p].doc)
                       /\ req'[p].doc.shortCode = req[p].code
                       /\ req'[p].doc.originalUrl = req[p].url
                       /\ req'[p].created
              /\ (req[p].pc = "inserted" /\ req[p].err # "none")
                    => /\ urlCache' = urlCache
                       /\ store' = store
                       /\ ~req[p].created
              /\ (req[p].pc = "inserted" /\ req[p].err = "none")
                    => /\ req[p].created
                       /\ urlCache' = HmSet(urlCache, req[p].doc.shortCode,
                                            req[p].doc.originalUrl)
                       /\ HmGet(urlCache', req[p].code) = req[p].url
              /\ (urlCache' # urlCache /\ req[p].pc # "foundUrl")
                    => /\ req[p].pc = "inserted"
                       /\ req[p].created]_vars

\* a POST /api/shorten whose save was rejected has been answered, and the
\* cache does not map its code to its URL, while another record was created
\* and cached under that code
C19_Witness ==
    \E p \in Reqs :
        /\ req[p].op = "shorten"
        /\ req[p].pc = "done"
        /\ req[p].err = "duplicate"
        /\ req[p].status = 400
        /\ ~req[p].created
        /\ HmGet(urlCache, req[p].code) \notin {Null, req[p].url}
        /\ \E i \in 1..Len(store) :
              /\ store[i].shortCode = req[p].code
              /\ HmGet(urlCache, req[p].code) = store[i].originalUrl

\* C20: every step in which a create, bulk create, delete or expiration
\* update request writes the store or modifies the cache is taken by a
\* request that rateLimiter.isAllowed has admitted.
C20_WritesPassAdmission ==
    [][\A p \in Reqs :
          (/\ req[p].op \in {"shorten", "bulk", "delete", "patch"}
           /\ req'[p] # req[p]
           /\ (store' # store \/ urlCache' # urlCache))
              => req[p].passed]_vars

\* C21: a request one of whose store operations was rejected is answered with
\* a failure, never with a success outcome.
C21_StoreFailuresReported ==
    \A p \in Reqs :
        (req[p].pc = "done" /\ req[p].storeFailed) => req[p].status >= 400

\* C22: every record's clicks equals the number of entries appended to its
\* clickHistory, each served redirect having added one to both, also when
\* redirects of the same code are in flight at the same time.
C22_ClicksCountRedirects ==
    \A i \in 1..Len(store) : store[i].clicks = store[i].history

\* C26: a request the rate-limit middleware rejects is answered with 429 and
\* the retryAfter that isAllowed returned, in a step that touches neither the
\* store nor the cache, and its handler never runs; an admitted request goes
\* on to the handler with X-RateLimit-Remaining set to the remaining value
\* that isAllowed returned.
C26_RejectedNeverReachesHandler ==
    [][\A p \in Reqs :
          /\ (req[p].pc = "idle" /\ req'[p].op \in {"shorten", "bulk"}) =>
                /\ last'.op = "isAllowed"
                /\ IF last'.allowed
                   THEN /\ req'[p].status # 429
                        /\ req'[p].passed
                        /\ req'[p].rateRemaining = last'.remaining
                        /\ req'[p].retryAfter = Idle.retryAfter
                   ELSE /\ req'[p].pc = "done"
                        /\ req'[p].status = 429
                        /\ req'[p].retryAfter = last'.retryAfter
                        /\ ~req'[p].passed
                        /\ store' = store
                        /\ urlCache' = urlCache
                        /\ nextId' = nextId
          /\ req[p].status = 429 =>
                /\ req[p].pc = "done"
                /\ req'[p] \in {req[p], Idle}
                /\ store' = store
                /\ urlCache' = urlCache]_vars

\* a creation request answered 429 with the controller's hint, after two
\* admitted ones of the same client created their records
C26_Witness ==
    \E p \in Reqs :
        /\ req[p].pc = "done"
        /\ req[p].status = 429
        /\ last.op = "isAllowed"
        /\ ~last.allowed
        /\ req[p].retryAfter = last.retryAfter
        /\ req[p].retryAfter > 0
        /\ Len(store) = MaxRequests
        /\ \E q \in Reqs : req[q].passed /\ req[q].rateRemaining = 0

C30_UniqueCodeLoserFails ==
    [][/\ \A i, j \in 1..Len(store') :
             store'[i].shortCode = store'[j].shortCode => i = j
       /\ \A p \in Reqs :
             /\ (/\ req[p].pc = "inserted"
                 /\ req[p].err = "duplicate"
                 /\ req'[p] # req[p]) => urlCache' = urlCache
             /\ (/\ req[p].op \in {"shorten", "bulk"}
                 /\ req[p].pc # "done"
                 /\ req'[p].pc = "done"
                 /\ req'[p].storeFailed) => req'[p].status >= 400]_vars

\* C34: whenever no request is in flight, every cache entry code -> url has a
\* record in the store with that shortCode and that originalUrl; after a DELETE
\* and the requests concurrent with it have completed the cache holds no entry
\* for the deleted code.
C34_CacheCoherentAtRest ==
    (\A p \in Reqs : req[p].pc = "idle") =>
        \A c \in Codes :
            HmGet(urlCache, c) # Null =>
                \E i \in 1..Len(store) :
                    /\ store[i].shortCode = c
                    /\ store[i].originalUrl = HmGet(urlCache, c)

\* C35: a GET /:shortCode that ends in 404 (no record) or 410 (expired record)
\* changes nothing: none of its steps, from the entry to the refusal, touches
\* a record's clicks or clickHistory, any other record or the cache.
C35_RefusedRedirectChangesNothing ==
    [][\A p \in Reqs :
          (/\ req'[p] # req[p]
           /\ req'[p].op = "get"
           /\ \/ req'[p].pc \in {"getFind", "getFound"}
              \/ req'[p].pc = "done" /\ req'[p].status \in {404, 410})
              => /\ store' = store
                 /\ urlCache' = urlCache
                 /\ nextId' = nextId
                 /\ lastShort' = lastShort]_vars

\* a GET answered 410 for a record that is in the store with the clicks it
\* was read with, while the cache holds nothing for the code
C35_Witness ==
    \E p \in Reqs :
        /\ req[p].op = "get"
        /\ req[p].pc = "done"
        /\ req[p].status = 410
        /\ HmGet(urlCache, req[p].code) = Null
        /\ \E i \in 1..Len(store) :
              /\ store[i].shortCode = req[p].code
              /\ store[i].clicks = req[p].doc.clicks
              /\ store[i].history = 0

\* C36: the admission check comes before validation and counts requests: the
\* step that takes in an admitted POST /api/shorten or /api/bulk-shorten
\* appends exactly one timestamp to the client's window, also when validation
\* refuses the request in that step, and no later step of the request, however
\* many URLs it carries, touches the controller.
C36_AdmissionCountsRequests ==
    [][\A p \in Reqs :
          /\ (req[p].pc = "idle" /\ req'[p].op \in {"shorten", "bulk"}) =>
                /\ last'.op = "isAllowed"
                /\ last'.at = now
                /\ req'[p].passed = last'.allowed
                /\ last'.allowed =>
                      /\ requestQueues'[last'.id] =
                            Append(Trim(QueueOf(requestQueues, last'.id), now), now)
                      /\ admitted'[last'.id] = Append(admitted[last'.id], now)
                      /\ \A B \in Identifiers \ {last'.id} :
                            admitted'[B] = admitted[B]
          /\ (req[p].pc \notin {"idle", "done"} /\ req'[p] # req[p]) =>
                /\ requestQueues' = requestQueues
                /\ admitted' = admitted]_vars

\* a request with a malformed or missing URL, answered 400 by validation, has
\* used up the last free place of its client's window
C36_Witness ==
    \E p \in Reqs :
        /\ req[p].op = "shorten"
        /\ req[p].pc = "done"
        /\ req[p].status = 400
        /\ ~PassesValidation(req[p].url)
        /\ req[p].passed
        /\ req[p].rateRemaining = 0
        /\ last.op = "isAllowed"
        /\ Len(requestQueues[last.id]) = MaxRequests

\* C37: a POST /api/shorten whose lookup finds a record for its originalUrl
\* writes nothing to the store (the record keeps its shortCode, clicks and
\* expiresAt whatever the request carries, and no record is created) and sets
\* the cache entry of the record's shortCode to the record's originalUrl.
C37_RepeatLeavesRecord ==
    [][\A p \in Reqs :
          (/\ req[p].op = "shorten"
           /\ req[p].pc \in {"findUrl", "foundUrl"}
           /\ req'[p] # req[p]
           /\ req'[p].doc # NoDoc)
              => /\ store' = store
                 /\ nextId' = nextId
                 /\ req'[p].doc.originalUrl = req'[p].url
                 /\ req[p].pc = "foundUrl" =>
                       /\ req'[p].pc = "done"
                       /\ req'[p].status = 200
                       /\ req'[p].code = req[p].doc.shortCode
                       /\ ~req'[p].created
                       /\ urlCache' = HmSet(urlCache, req[p].doc.shortCode,
                                            req[p].doc.originalUrl)
                       /\ HmGet(urlCache', req[p].doc.shortCode) =
                             req[p].doc.originalUrl]_vars

\* a repeat request that carried an expiry was answered from a record without
\* one: the store still holds that single record, unchanged, and the cache
\* maps its code to its URL
C37_Witness ==
    \E p \in Reqs :
        /\ req[p].op = "shorten"
        /\ req[p].pc = "done"
        /\ req[p].status = 200
        /\ req[p].exp # NoExpiry
        /\ req[p].doc.expiresAt = NoExpiry
        /\ Len(store) = 1
        /\ store[1] = req[p].doc
        /\ HmGet(urlCache, store[1].shortCode) = store[1].originalUrl

\* C38: an accepted bulk request is answered 201 with every input item in
\* exactly one of successful and failed (their lengths add up to the number of
\* items, no item is left unprocessed); every item in successful has its
\* record and its cache entry; the step that fails an item, and the rejected
\* save before it, create no record and no cache entry.
C38_EveryItemAccountedFor ==
    [][\A p \in Reqs :
          /\ (req'[p].op = "bulk" /\ req[p].pc # "done" /\ req'[p].pc = "done") =>
                /\ req'[p].status = 201
                /\ req'[p].items = << >>
                /\ Len(req'[p].successful) + Len(req'[p].failed) = req'[p].total
                /\ \A k \in 1..Len(req'[p].successful) :
                      LET item == req'[p].successful[k]
                      IN  /\ \E i \in 1..Len(store') :
                                /\ store'[i].originalUrl = item[1]
                                /\ store'[i].shortCode = item[2]
                          /\ HmGet(urlCache', item[2]) = item[1]
          /\ (req[p].op = "bulk" /\ req'[p].op = "bulk"
              /\ Len(req'[p].failed) > Len(req[p].failed)) =>
                /\ store' = store
                /\ urlCache' = urlCache
          /\ (req[p].op = "bulk" /\ req[p].pc = "insert"
              /\ req'[p].err # "none") => store' = store]_vars

====
